---- MODULE Spec2Model ----
(***************************************************************************)
(* Booking constraint engine of the session scheduler (fun_fact).          *)
(*                                                                         *)
(* The store is the Prisma schema (provider "mysql", relationMode          *)
(* "prisma"): a Session table, a Booking table with a unique index on      *)
(* (studentId, sessionId), and the set of student identities.  Every       *)
(* `await` on the store in a route handler is one atomic step here; the    *)
(* steps of different requests interleave freely.  A plain findUnique      *)
(* inside prisma.$transaction is a non-locking read under the store's      *)
(* default isolation, so the read and the insert of the booking            *)
(* transaction are two steps.                                              *)
(***************************************************************************)
EXTENDS Integers, FiniteSets, Sequences, TLC

\* ------------------------------------------------------------------ bounds
NStudents == 2
NReq == 2
MaxRequests == 2
MaxToggles == 1
IdsPerStudent == 3
BurstN == 3

\* ------------------------------------------------------- program constants
MAX_CAPACITY == 6
MAX_DAYS_PER_STUDENT == 2
DEFAULT_CAPACITY == 4

\* The README: "Ensures users select exactly 3 days (1 session per day)".
THREE_DAY_RULE == 3

\* ---------------------------------------------------------------- catalog
SessIds == {"S0", "S1", "S2", "S3", "S4"}

\* Capacities the rows of a catalog are given when it is drawn: a single
\* place, and the value the seed script writes.
Capacities == {1, DEFAULT_CAPACITY}

SessionRow(d, t, c) == [day |-> d, timeSlot |-> t, capacity |-> c, metadata |-> {}]

\* Four rows of the seeded grid: two slots of one day and one slot of two
\* further days.  "S0" is an identifier with no row.
SeedDay(x) ==
    CASE x = "S1" -> "MONDAY"
      [] x = "S2" -> "MONDAY"
      [] x = "S3" -> "TUESDAY"
      [] OTHER    -> "WEDNESDAY"

SeedSlot(x) == IF x = "S2" THEN "SLOT_10_12" ELSE "SLOT_8_10"

\* ------------------------------------------------------------------- ids
NoSuchId == <<0, 0>>
NoBooking == [id |-> NoSuchId, studentId |-> 0, sessionId |-> ""]
IdleReq == [pc |-> "idle", op |-> "none", student |-> 0, sessionId |-> "",
            bookingId |-> NoSuchId, booking |-> NoBooking, result |-> "none"]

\* snap is a history variable: where it is switched on it keeps the ledger
\* as it stood just before the latest insert and the booking inserted, and,
\* of the latest successful cancellation, the student and the session when
\* that session was at its capacity before the delete.
NoSnap == [on |-> FALSE, ledger |-> {}, booking |-> NoBooking,
           freed |-> "", canceller |-> 0, agent |-> "", reset |-> 0]

\* client is the mirror SessionDataProvider keeps in the browser of one
\* student: the bookings and sessions state, the step bookSession is at, and
\* (a history field) the mirror as it was when the attempt began.  It is
\* "off" where no browser is modelled.
NoMirror == [bookings |-> {}, sessions |-> [x \in {} |-> 0]]
NoClient == [phase |-> "off", target |-> "", mirror |-> NoMirror, pre |-> NoMirror]

VARIABLES students, sessions, ledger, req, budget, toggles, snap, client

vars == <<students, sessions, ledger, req, budget, toggles, snap, client>>

\* ---------------------------------------------------------------- queries
\* session.bookings of findUnique({ include: { bookings: true } })
SessionBookings(l, x) == {b \in l : b.sessionId = x}

\* prisma.booking.findMany({ where: { studentId } })
StudentBookings(l, s) == {b \in l : b.studentId = s}

\* metadata?.isEnabled ?? true
IsEnabled(row) == ~(<<"isEnabled", FALSE>> \in row.metadata)

\* @@unique([studentId, sessionId]) : would the insert raise P2002 ?
UniqueViolationOff(l, s, x) == FALSE

UniqueViolation(l, s, x) == \E b \in l : b.studentId = s /\ b.sessionId = x

\* @default(uuid()) : a fresh identifier, taken as the least one of the
\* student's pool that is neither stored nor held by a request in flight.
IdInUse(id) ==
    \/ \E b \in ledger : b.id = id
    \/ \E r \in DOMAIN req : req[r].bookingId = id \/ req[r].booking.id = id

FreeIdExists(s) == \E n \in 1..IdsPerStudent : ~IdInUse(<<s, n>>)

FreshId(s) ==
    <<s, CHOOSE n \in 1..IdsPerStudent :
            /\ ~IdInUse(<<s, n>>)
            /\ \A m \in 1..(n - 1) : IdInUse(<<s, m>>)>>

Finish(r, res, bk) ==
    req' = [req EXCEPT ![r].pc = "done", ![r].result = res, ![r].booking = bk]

\* ------------------------------------------------------------------ Init
MainCatalogs ==
    {[x \in {"S1", "S2", "S3", "S4"} |-> SessionRow(SeedDay(x), SeedSlot(x), c)] :
        c \in Capacities}

Init ==
    /\ students = 1..NStudents
    /\ sessions \in MainCatalogs
    /\ ledger = {}
    /\ req = [r \in 1..NReq |-> IdleReq]
    /\ budget = MaxRequests + 1
    /\ toggles = MaxToggles
    /\ snap = NoSnap
    /\ client = NoClient

\* --------------------------------------------------------- createBooking
\* validateSessionBooking, first read: the session and its bookings.
CreateBegin(r, s, x) ==
    /\ req[r].pc = "idle"
    /\ budget > 0
    /\ budget' = budget - 1
    /\ IF x \notin DOMAIN sessions
       THEN req' = [req EXCEPT ![r] = [IdleReq EXCEPT !.pc = "done", !.op = "create",
                        !.student = s, !.sessionId = x, !.result = "SessionNotFound"]]
       ELSE IF Cardinality(SessionBookings(ledger, x)) >= MAX_CAPACITY
       THEN req' = [req EXCEPT ![r] = [IdleReq EXCEPT !.pc = "done", !.op = "create",
                        !.student = s, !.sessionId = x, !.result = "SessionFull"]]
       ELSE req' = [req EXCEPT ![r] = [IdleReq EXCEPT !.pc = "v2", !.op = "create",
                        !.student = s, !.sessionId = x]]
    /\ UNCHANGED <<students, sessions, ledger, toggles, snap, client>>

\* validateSessionBooking, second read: the student's bookings; then the
\* sessionBefore read of the route, which cannot fail once the row was seen.
CreateCheckStudent(r) ==
    /\ req[r].pc = "v2"
    /\ LET s  == req[r].student
           x  == req[r].sessionId
           sb == StudentBookings(ledger, s)
       IN IF \E b \in sb : sessions[b.sessionId].day = sessions[x].day
          THEN Finish(r, "DayAlreadyBooked", NoBooking)
          ELSE IF Cardinality(sb) >= MAX_DAYS_PER_STUDENT
          THEN Finish(r, "MaxDaysReached", NoBooking)
          ELSE req' = [req EXCEPT ![r].pc = "tx"]
    /\ UNCHANGED <<students, sessions, ledger, budget, toggles, snap, client>>

\* TxRead with the row written before the capacity check and left behind
\* when the check throws.
TxReadWriteFirst(r) ==
    /\ req[r].pc = "tx"
    /\ LET s == req[r].student
           x == req[r].sessionId
       IN IF Cardinality(SessionBookings(ledger, x)) >= sessions[x].capacity
          THEN /\ FreeIdExists(s)
               /\ ledger' = ledger \cup {[id |-> FreshId(s), studentId |-> s, sessionId |-> x]}
               /\ Finish(r, "SessionFull", NoBooking)
          ELSE /\ req' = [req EXCEPT ![r].pc = "ins"]
               /\ UNCHANGED ledger
    /\ UNCHANGED <<students, sessions, budget, toggles, snap, client>>

\* prisma.$transaction: read of the session with its bookings.
TxRead(r) ==
    /\ req[r].pc = "tx"
    /\ LET x == req[r].sessionId
       IN IF Cardinality(SessionBookings(ledger, x)) >= sessions[x].capacity
          THEN Finish(r, "SessionFull", NoBooking)
          ELSE req' = [req EXCEPT ![r].pc = "ins"]
    /\ UNCHANGED <<students, sessions, ledger, budget, toggles, snap, client>>

\* The insert without the P2002 branch of the catch block.
TxCreateNoP2002(r) ==
    /\ req[r].pc = "ins"
    /\ LET s == req[r].student
           x == req[r].sessionId
       IN IF UniqueViolation(ledger, s, x)
          THEN /\ Finish(r, "CreateFailed", NoBooking)
               /\ UNCHANGED <<ledger, snap, client>>
          ELSE /\ FreeIdExists(s)
               /\ LET bk == [id |-> FreshId(s), studentId |-> s, sessionId |-> x]
                  IN /\ ledger' = ledger \cup {bk}
                     /\ snap' = IF snap.on
                                THEN [snap EXCEPT !.ledger = ledger, !.booking = bk]
                                ELSE snap
                     /\ Finish(r, "Success", bk)
    /\ UNCHANGED <<students, sessions, budget, toggles, client>>

\* prisma.$transaction: tx.booking.create and commit.
TxCreate(r) ==
    /\ req[r].pc = "ins"
    /\ LET s == req[r].student
           x == req[r].sessionId
       IN IF UniqueViolation(ledger, s, x)
          THEN /\ Finish(r, "AlreadyBooked", NoBooking)
               /\ UNCHANGED <<ledger, snap, client>>
          ELSE /\ FreeIdExists(s)
               /\ LET bk == [id |-> FreshId(s), studentId |-> s, sessionId |-> x]
                  IN /\ ledger' = ledger \cup {bk}
                     /\ snap' = IF snap.on
                                THEN [snap EXCEPT !.ledger = ledger, !.booking = bk]
                                ELSE snap
                     /\ Finish(r, "Success", bk)
    /\ UNCHANGED <<students, sessions, budget, toggles, client>>

\* ---------------------------------------------------------- cancelBooking
\* The lookup without its ownership filter.
FindFirstAnyOwner(l, id, s) == {b \in l : b.id = id}

\* The lookup by the student alone: any booking of the caller.
FindFirstOfStudent(l, id, s) == {b \in l : b.studentId = s}

\* The lookup narrowed to bookings of sessions that are enabled.
FindFirstEnabledOnly(l, id, s) ==
    {b \in l : b.id = id /\ b.studentId = s /\ IsEnabled(sessions[b.sessionId])}

\* prisma.booking.findFirst({ where: { id: bookingId, studentId: student.id } })
FindFirstBooking(l, id, s) == {b \in l : b.id = id /\ b.studentId = s}

\* The handler with a separate answer for a booking held by someone else.
CancelBeginForbidden(r, s, id) ==
    /\ req[r].pc = "idle"
    /\ budget > 0
    /\ budget' = budget - 1
    /\ LET found == FindFirstBooking(ledger, id, s)
       IN IF found = {}
          THEN req' = [req EXCEPT ![r] = [IdleReq EXCEPT !.pc = "done", !.op = "cancel",
                           !.student = s, !.bookingId = id,
                           !.result = IF \E b \in ledger : b.id = id
                                      THEN "Forbidden"
                                      ELSE "NotFoundOrUnauthorized"]]
          ELSE req' = [req EXCEPT ![r] = [IdleReq EXCEPT !.pc = "del", !.op = "cancel",
                           !.student = s, !.bookingId = id,
                           !.booking = CHOOSE b \in found : TRUE]]
    /\ UNCHANGED <<students, sessions, ledger, toggles, snap, client>>

\* deleteBooking: findFirst({ where: { id, studentId } }).
CancelBegin(r, s, id) ==
    /\ req[r].pc = "idle"
    /\ budget > 0
    /\ budget' = budget - 1
    /\ LET found == FindFirstBooking(ledger, id, s)
       IN IF found = {}
          THEN req' = [req EXCEPT ![r] = [IdleReq EXCEPT !.pc = "done", !.op = "cancel",
                           !.student = s, !.bookingId = id,
                           !.result = "NotFoundOrUnauthorized"]]
          ELSE req' = [req EXCEPT ![r] = [IdleReq EXCEPT !.pc = "del", !.op = "cancel",
                           !.student = s, !.bookingId = id,
                           !.booking = CHOOSE b \in found : TRUE]]
    /\ UNCHANGED <<students, sessions, ledger, toggles, snap, client>>

\* The delete widened to every booking of the row's student.
CancelDeleteAll(r) ==
    /\ req[r].pc = "del"
    /\ LET id == req[r].bookingId
           x  == req[r].booking.sessionId
       IN IF \E b \in ledger : b.id = id
          THEN /\ ledger' = {b \in ledger : b.studentId # req[r].student}
               /\ req' = [req EXCEPT ![r].pc = "done", ![r].result = "Success"]
               /\ snap' = IF snap.on
                          THEN [snap EXCEPT
                                  !.freed = IF Cardinality(SessionBookings(ledger, x))
                                                  >= sessions[x].capacity
                                            THEN x ELSE "",
                                  !.canceller = req[r].student]
                          ELSE snap
          ELSE /\ UNCHANGED <<ledger, snap, client>>
               /\ req' = [req EXCEPT ![r].pc = "done", ![r].result = "CancelFailed"]
    /\ UNCHANGED <<students, sessions, budget, toggles, client>>

\* The delete that answers Success and leaves the row in place.
CancelDeleteKeepsRow(r) ==
    /\ req[r].pc = "del"
    /\ LET id == req[r].bookingId
           x  == req[r].booking.sessionId
       IN IF \E b \in ledger : b.id = id
          THEN /\ UNCHANGED ledger
               /\ req' = [req EXCEPT ![r].pc = "done", ![r].result = "Success"]
               /\ snap' = IF snap.on
                          THEN [snap EXCEPT
                                  !.freed = IF Cardinality(SessionBookings(ledger, x))
                                                  >= sessions[x].capacity
                                            THEN x ELSE "",
                                  !.canceller = req[r].student]
                          ELSE snap
          ELSE /\ UNCHANGED <<ledger, snap, client>>
               /\ req' = [req EXCEPT ![r].pc = "done", ![r].result = "CancelFailed"]
    /\ UNCHANGED <<students, sessions, budget, toggles, client>>

\* deleteBooking: prisma.booking.delete({ where: { id } }); a missing row
\* throws and the catch block answers 'Failed to cancel booking'.
CancelDelete(r) ==
    /\ req[r].pc = "del"
    /\ LET id == req[r].bookingId
           x  == req[r].booking.sessionId
       IN IF \E b \in ledger : b.id = id
          THEN /\ ledger' = {b \in ledger : b.id # id}
               /\ req' = [req EXCEPT ![r].pc = "done", ![r].result = "Success"]
               /\ snap' = IF snap.on
                          THEN [snap EXCEPT
                                  !.freed = IF Cardinality(SessionBookings(ledger, x))
                                                  >= sessions[x].capacity
                                            THEN x ELSE "",
                                  !.canceller = req[r].student]
                          ELSE snap
          ELSE /\ UNCHANGED <<ledger, snap, client>>
               /\ req' = [req EXCEPT ![r].pc = "done", ![r].result = "CancelFailed"]
    /\ UNCHANGED <<students, sessions, budget, toggles, client>>

\* The response has been delivered: the serving slot takes the next request.
Return(r) ==
    /\ req[r].pc = "done"
    /\ req' = [req EXCEPT ![r] = IdleReq]
    /\ UNCHANGED <<students, sessions, ledger, budget, toggles, snap, client>>

\* ------------------------------------------------------------ bulk reset
UserAgents == {"vercel-cron/1.0", "curl/8.0"}

\* The user-agent test that lets every caller through.
IsCronAlways(ua) == TRUE

IsCron(ua) == ua = "vercel-cron/1.0"

\* The status POST /api/admin/reset-bookings answers with.
ResetStatus(ua) == IF IsCron(ua) THEN 200 ELSE 401

\* History of the latest reset call: its user-agent and its status.
ResetSnap(ua) ==
    IF snap.on THEN [snap EXCEPT !.agent = ua, !.reset = ResetStatus(ua)] ELSE snap

\* The reset that also puts every session back to its seeded metadata.
ResetBookingsAndFlags(ua) ==
    /\ ledger' = IF IsCron(ua) THEN {} ELSE ledger
    /\ sessions' = IF IsCron(ua)
                   THEN [x \in DOMAIN sessions |-> [sessions[x] EXCEPT !.metadata = {}]]
                   ELSE sessions
    /\ snap' = ResetSnap(ua)
    /\ UNCHANGED <<students, req, budget, toggles, client>>

ResetBookings(ua) ==
    /\ ledger' = IF IsCron(ua) THEN {} ELSE ledger
    /\ snap' = ResetSnap(ua)
    /\ UNCHANGED <<students, sessions, req, budget, toggles, client>>

\* ------------------------------------------------------ setSessionEnabled
\* Body of the PATCH request: the isEnabled member is absent, a boolean, or
\* some other JSON value.
Bodies == {"absent", "true", "false", "other"}

\* The type check that lets every body through.
PatchStatusLenient(sess, x, body) ==
    IF x \notin DOMAIN sess THEN 404 ELSE 200

\* The status PATCH /api/instructor/sessions/:id answers with: the type
\* check of the body comes first, then the lookup of the session.
PatchStatus(sess, x, body) ==
    IF body = "other" THEN 400
    ELSE IF x \notin DOMAIN sess THEN 404
    ELSE 200

SetKey(m, v) == {p \in m : p[1] # "isEnabled"} \cup {<<"isEnabled", v>>}

\* The toggle that also cancels the bookings held on a session it disables.
PATCHDropsBookings(x, body) ==
    /\ toggles > 0
    /\ toggles' = toggles - 1
    /\ sessions' = IF body = "other" \/ x \notin DOMAIN sessions
                   THEN sessions
                   ELSE [sessions EXCEPT ![x].metadata = SetKey(@, body # "false")]
    /\ ledger' = IF body = "false" /\ x \in DOMAIN sessions
                 THEN {b \in ledger : b.sessionId # x}
                 ELSE ledger
    /\ UNCHANGED <<students, req, budget, snap, client>>

\* The toggle that ignores a body without the isEnabled member.
PATCHAbsentIgnored(x, body) ==
    /\ toggles > 0
    /\ toggles' = toggles - 1
    /\ sessions' = IF PatchStatus(sessions, x, body) # 200 \/ body = "absent"
                   THEN sessions
                   ELSE [sessions EXCEPT ![x].metadata = SetKey(@, body # "false")]
    /\ UNCHANGED <<students, ledger, req, budget, snap, client>>

\* const { isEnabled = true } = body; the two refusals; then
\* prisma.session.update({ data: { metadata: { ...existing, isEnabled } } }).
PATCH(x, body) ==
    /\ toggles > 0
    /\ toggles' = toggles - 1
    /\ sessions' = IF PatchStatus(sessions, x, body) # 200
                   THEN sessions
                   ELSE [sessions EXCEPT ![x].metadata = SetKey(@, body # "false")]
    /\ UNCHANGED <<students, ledger, req, budget, snap, client>>

\* Identifiers a cancellation may name: every stored one and one that is not.
CancelIds == {b.id : b \in ledger} \cup {NoSuchId}

\* Booking traffic: createBooking, cancelBooking and the bulk reset.
NextBooking ==
    \/ \E r \in DOMAIN req, s \in students, x \in SessIds : CreateBegin(r, s, x)
    \/ \E r \in DOMAIN req : CreateCheckStudent(r)
    \/ \E r \in DOMAIN req : TxRead(r)
    \/ \E r \in DOMAIN req : TxCreate(r)
    \/ \E r \in DOMAIN req, s \in students, id \in CancelIds : CancelBegin(r, s, id)
    \/ \E r \in DOMAIN req : CancelDelete(r)
    \/ \E r \in DOMAIN req : Return(r)
    \/ \E ua \in UserAgents : ResetBookings(ua)

Next ==
    \/ NextBooking
    \/ \E x \in SessIds, body \in Bodies : PATCH(x, body)

Spec == Init /\ [][Next]_vars

\* Booking traffic alone, on a catalog no instructor touches.
InitBooking ==
    /\ students = 1..NStudents
    /\ sessions \in MainCatalogs
    /\ ledger = {}
    /\ req = [r \in 1..NReq |-> IdleReq]
    /\ budget = MaxRequests
    /\ toggles = 0
    /\ snap = NoSnap
    /\ client = NoClient

SpecBooking == InitBooking /\ [][NextBooking]_vars

\* One serving slot: requests run one after the other.
InitSeq ==
    /\ students = 1..NStudents
    /\ sessions \in MainCatalogs
    /\ ledger = {}
    /\ req = [r \in {1} |-> IdleReq]
    /\ budget = MaxRequests + 1
    /\ toggles = MaxToggles
    /\ snap = NoSnap
    /\ client = NoClient

SpecSeq == InitSeq /\ [][Next]_vars

\* createBooking requests only.
NextCreate ==
    \/ \E r \in DOMAIN req, s \in students, x \in SessIds : CreateBegin(r, s, x)
    \/ \E r \in DOMAIN req : CreateCheckStudent(r)
    \/ \E r \in DOMAIN req : TxRead(r)
    \/ \E r \in DOMAIN req : TxCreate(r)
    \/ \E r \in DOMAIN req : Return(r)

\* A burst of BurstN createBooking requests, one per serving slot, on an
\* empty ledger; the catalog is one session of capacity below BurstN.
InitBurst ==
    /\ students = 1..BurstN
    /\ \E c \in 1..(BurstN - 1) :
          sessions = [x \in {"S1"} |-> SessionRow(SeedDay(x), SeedSlot(x), c)]
    /\ ledger = {}
    /\ req = [r \in 1..BurstN |-> IdleReq]
    /\ budget = BurstN
    /\ toggles = 0
    /\ snap = NoSnap
    /\ client = NoClient

SpecBurst == InitBurst /\ [][NextCreate]_vars

\* One slot, one session whose capacity is above MAX_CAPACITY, and as many
\* students as that capacity.
InitBig ==
    /\ students = 1..(MAX_CAPACITY + 1)
    /\ sessions = [x \in {"S1"} |-> SessionRow(SeedDay(x), SeedSlot(x), MAX_CAPACITY + 1)]
    /\ ledger = {}
    /\ req = [r \in {1} |-> IdleReq]
    /\ budget = MAX_CAPACITY + 1
    /\ toggles = 0
    /\ snap = NoSnap
    /\ client = NoClient

SpecBig == InitBig /\ [][NextCreate]_vars

\* One serving slot, no PATCH, and the history variable switched on.
InitRound ==
    /\ students = 1..NStudents
    /\ sessions \in MainCatalogs
    /\ ledger = {}
    /\ req = [r \in {1} |-> IdleReq]
    /\ budget = MaxRequests + 1
    /\ toggles = 0
    /\ snap = [NoSnap EXCEPT !.on = TRUE]
    /\ client = NoClient

SpecRound == InitRound /\ [][NextBooking]_vars

\* ------------------------------------------------------ storage failures
\* A storage call of createBooking throws. A failed statement has no effect
\* (the insert runs inside prisma.$transaction, which rolls back). The catch
\* block of validateSessionBooking turns a failed validation read into
\* { valid: false, error: SYSTEM_ERROR }, which the route answers like any
\* other validation error; the catch block of the route answers every other
\* failure with status 500.
CreateBeginFails(r, s, x) ==
    /\ req[r].pc = "idle"
    /\ budget > 0
    /\ budget' = budget - 1
    /\ req' = [req EXCEPT ![r] = [IdleReq EXCEPT !.pc = "done", !.op = "create",
                     !.student = s, !.sessionId = x, !.result = "SystemError"]]
    /\ UNCHANGED <<students, sessions, ledger, toggles, snap, client>>

\* The failing insert that nevertheless leaves its row behind.
CreateStepFailsDirty(r) ==
    /\ req[r].op = "create"
    /\ req[r].pc \in {"v2", "tx", "ins"}
    /\ \E res \in IF req[r].pc = "v2" THEN {"SystemError", "CreateFailed"}
                                      ELSE {"CreateFailed"} :
           Finish(r, res, NoBooking)
    /\ IF req[r].pc = "ins" /\ FreeIdExists(req[r].student)
       THEN ledger' = ledger \cup {[id |-> FreshId(req[r].student),
                                    studentId |-> req[r].student,
                                    sessionId |-> req[r].sessionId]}
       ELSE ledger' = ledger
    /\ UNCHANGED <<students, sessions, budget, toggles, snap, client>>

\* At "v2" either the student's bookings read of the validator fails
\* (SystemError) or the sessionBefore read of the route does (CreateFailed);
\* at "tx" and "ins" the read or the insert inside the transaction fails.
CreateStepFails(r) ==
    /\ req[r].op = "create"
    /\ req[r].pc \in {"v2", "tx", "ins"}
    /\ \E res \in IF req[r].pc = "v2" THEN {"SystemError", "CreateFailed"}
                                      ELSE {"CreateFailed"} :
           Finish(r, res, NoBooking)
    /\ UNCHANGED <<students, sessions, ledger, budget, toggles, snap, client>>

NextFaulty ==
    \/ NextCreate
    \/ \E r \in DOMAIN req, s \in students, x \in SessIds : CreateBeginFails(r, s, x)
    \/ \E r \in DOMAIN req : CreateStepFails(r)

SpecFaulty == InitBooking /\ [][NextFaulty]_vars

\* ------------------------------------------------------- getAvailability
\* GET /api/sessions: one formatted session as seen by viewer (0: nobody is
\* signed in), computed from the catalog sess and the ledger l.
NoViewer == 0

FormatSession(sess, l, viewer, x) ==
    LET bookingCount    == Cardinality(SessionBookings(l, x))
        studentBookings == IF viewer = NoViewer THEN {} ELSE StudentBookings(l, viewer)
    IN [id             |-> x,
        day            |-> sess[x].day,
        timeSlot       |-> sess[x].timeSlot,
        capacity       |-> sess[x].capacity,
        bookingCount   |-> bookingCount,
        availableSpots |-> sess[x].capacity - bookingCount,
        isAvailable    |-> bookingCount < sess[x].capacity,
        isBooked       |-> \E b \in studentBookings : b.sessionId = x]

\* ------------------------------------------------------------- responses
\* What the route handlers put on the wire for each outcome: the HTTP status
\* and the error text (createErrorResponse(message, status = 400)).
HttpStatus(res) ==
    CASE res = "Success"                -> 200
      [] res = "NotFoundOrUnauthorized" -> 404
      [] res = "CancelFailed"           -> 500
      [] res = "CreateFailed"           -> 500
      [] OTHER                          -> 400

ErrorMessage(res) ==
    CASE res = "SessionNotFound"        -> "Session not found"
      [] res = "SessionFull"            -> "This session is already at full capacity."
      [] res = "DayAlreadyBooked"       -> "You already have a session booked for this day."
      [] res = "MaxDaysReached"         -> "You can only select up to 2 days."
      [] res = "SystemError"            -> "Something went wrong. Please try again later."
      [] res = "AlreadyBooked"          -> "You have already booked this session"
      [] res = "CreateFailed"           -> "Failed to create booking"
      [] res = "NotFoundOrUnauthorized" -> "Booking not found or not authorized"
      [] res = "CancelFailed"           -> "Failed to cancel booking"
      [] OTHER                          -> ""

\* The body of the DELETE response for request r: an error, or the
\* deletedBooking built from the row that findFirst returned.
CancelResponse(r) ==
    IF req[r].result = "Success"
    THEN [status    |-> HttpStatus("Success"),
          error     |-> "",
          id        |-> req[r].bookingId,
          sessionId |-> req[r].booking.sessionId,
          day       |-> sessions[req[r].booking.sessionId].day,
          timeSlot  |-> sessions[req[r].booking.sessionId].timeSlot]
    ELSE [status    |-> HttpStatus(req[r].result),
          error     |-> ErrorMessage(req[r].result),
          id        |-> NoSuchId,
          sessionId |-> "",
          day       |-> "",
          timeSlot  |-> ""]

\* ----------------------------------------------- reads of the enabled flag
\* The value stored under metadata.isEnabled, as a set: empty when the
\* member (or the whole metadata) is absent.
StoredFlag(row) == {p[2] : p \in {q \in row.metadata : q[1] = "isEnabled"}}

\* The list reader with a strict comparison: metadata?.isEnabled === true.
InstructorListIsEnabledStrict(row) == TRUE \in StoredFlag(row)

\* GET /api/instructor/sessions: metadata?.isEnabled !== false
InstructorListIsEnabled(row) == FALSE \notin StoredFlag(row)

\* PATCH response and GET /api/instructor/sessions/:id:
\* metadata?.isEnabled ?? true
SessionDetailIsEnabled(row) ==
    IF StoredFlag(row) = {} THEN TRUE ELSE CHOOSE v \in StoredFlag(row) : TRUE

\* One serving slot, little booking traffic and one toggle more than
\* elsewhere, so that a session can be switched and switched back.
InitToggle ==
    /\ students = 1..NStudents
    /\ sessions \in MainCatalogs
    /\ ledger = {}
    /\ req = [r \in {1} |-> IdleReq]
    /\ budget = MaxRequests - 1
    /\ toggles = MaxToggles + 1
    /\ snap = NoSnap
    /\ client = NoClient

NextToggle ==
    \/ NextCreate
    \/ \E x \in SessIds, body \in Bodies : PATCH(x, body)

SpecToggle == InitToggle /\ [][NextToggle]_vars

\* --------------------------------------------------------------- seeding
\* prisma/seed.js walks the grid of days and time slots in order and, for
\* each pair, creates a session of the default capacity when findFirst
\* finds none.  SeedOrder names the pairs of the grid through the rows of
\* MainCatalogs.
SeedOrder == <<"S1", "S2", "S3", "S4">>

\* The lookup that never finds a session.
HasSlotNever(sess, d, t) == FALSE

\* prisma.session.findFirst({ where: { day, timeSlot } })
HasSlot(sess, d, t) == \E x \in DOMAIN sess : sess[x].day = d /\ sess[x].timeSlot = t

\* Positions of the grid whose pair has no session yet.
MissingSlots(sess) ==
    {i \in DOMAIN SeedOrder : ~HasSlot(sess, SeedDay(SeedOrder[i]), SeedSlot(SeedOrder[i]))}

\* One iteration of the loop that creates: the first missing pair of the
\* grid gets a row under an identifier not in use (@default(uuid())).
\* With no pair missing, or no identifier left, the run adds nothing.
SeedSession ==
    /\ sessions' =
          IF MissingSlots(sessions) = {} \/ SessIds \ DOMAIN sessions = {}
          THEN sessions
          ELSE LET i  == CHOOSE k \in MissingSlots(sessions) :
                            \A m \in MissingSlots(sessions) : k <= m
                   id == CHOOSE x \in SessIds \ DOMAIN sessions : TRUE
               IN [x \in DOMAIN sessions \cup {id} |->
                      IF x = id
                      THEN SessionRow(SeedDay(SeedOrder[i]), SeedSlot(SeedOrder[i]),
                                      DEFAULT_CAPACITY)
                      ELSE sessions[x]]
    /\ UNCHANGED <<students, ledger, req, budget, toggles, snap, client>>

\* The database before the seed script has run, then seeding and traffic.
InitSeed ==
    /\ students = 1..NStudents
    /\ sessions = [x \in {} |-> SessionRow("", "", 0)]
    /\ ledger = {}
    /\ req = [r \in {1} |-> IdleReq]
    /\ budget = MaxRequests
    /\ toggles = MaxToggles
    /\ snap = NoSnap
    /\ client = NoClient

NextSeed ==
    \/ Next
    \/ SeedSession

SpecSeed == InitSeed /\ [][NextSeed]_vars

\* ------------------------------------------------ the client's mirror
\* SessionDataProvider in the browser of student Viewer.
Viewer == 1

\* id: `temp-${Date.now()}` of the optimistic booking.
TempId == <<0, 1>>

Max(a, b) == IF a >= b THEN a ELSE b

\* fetchAllData: GET /api/bookings and GET /api/sessions as the server
\* answers them for viewer v on catalog sess and ledger l.
MirrorOf(sess, l, v) ==
    [bookings |-> {[id |-> b.id, sessionId |-> b.sessionId, isOptimistic |-> FALSE] :
                      b \in StudentBookings(l, v)},
     sessions |-> [x \in DOMAIN sess |->
                      [availableSpots |-> FormatSession(sess, l, v, x).availableSpots,
                       isBooked       |-> FormatSession(sess, l, v, x).isBooked]]]

FetchAllData ==
    /\ client.phase = "idle"
    /\ client' = [client EXCEPT !.mirror = MirrorOf(sessions, ledger, Viewer)]
    /\ UNCHANGED <<students, sessions, ledger, req, budget, toggles, snap>>

\* bookSession up to the POST: the two client-side checks, then the
\* optimistic booking and the optimistic change of the target session.
\* The student has no other request under way, so the createBooking the
\* server runs next for Viewer on the target is this POST.
BookSession(x) ==
    /\ client.phase = "idle"
    /\ x \in DOMAIN client.mirror.sessions
    /\ \A r \in DOMAIN req : req[r].student # Viewer
    /\ LET m == client.mirror
       IN IF \/ Cardinality(m.bookings) >= MAX_DAYS_PER_STUDENT
             \/ \E b \in m.bookings : sessions[b.sessionId].day = sessions[x].day
          THEN UNCHANGED client
          ELSE client' =
                  [phase  |-> "posting",
                   target |-> x,
                   pre    |-> m,
                   mirror |->
                      [bookings |-> m.bookings
                                       \cup {[id |-> TempId, sessionId |-> x,
                                              isOptimistic |-> TRUE]},
                       sessions |-> [m.sessions EXCEPT
                                       ![x] = [availableSpots |-> Max(0, @.availableSpots - 1),
                                               isBooked       |-> TRUE]]]]
    /\ UNCHANGED <<students, sessions, ledger, req, budget, toggles, snap>>

\* bookSession after the POST: the answer of the server to the Viewer's
\* createBooking on the target arrives.  On success the optimistic booking
\* is replaced by the real one; in the catch block the optimistic bookings
\* are dropped and the target session is put back.
BookSessionResponse(r) ==
    /\ client.phase = "posting"
    /\ req[r].pc = "done"
    /\ req[r].op = "create"
    /\ req[r].student = Viewer
    /\ req[r].sessionId = client.target
    /\ LET m == client.mirror
           x == client.target
       IN client' =
             [client EXCEPT
                !.phase = "idle",
                !.mirror =
                   IF req[r].result = "Success"
                   THEN [m EXCEPT !.bookings =
                            {b \in m.bookings : b.id # TempId}
                               \cup {[id |-> req[r].booking.id, sessionId |-> x,
                                      isOptimistic |-> FALSE]}]
                   ELSE [bookings |-> {b \in m.bookings : ~b.isOptimistic},
                         sessions |-> [m.sessions EXCEPT
                                         ![x] = [availableSpots |-> @.availableSpots + 1,
                                                 isBooked       |-> FALSE]]]]
    /\ req' = [req EXCEPT ![r] = IdleReq]
    /\ UNCHANGED <<students, sessions, ledger, budget, toggles, snap>>

\* One browser, one serving slot, booking traffic of every student.
InitClient ==
    /\ students = 1..NStudents
    /\ sessions \in MainCatalogs
    /\ ledger = {}
    /\ req = [r \in {1} |-> IdleReq]
    /\ budget = MaxRequests
    /\ toggles = 0
    /\ snap = NoSnap
    /\ client = [phase |-> "idle", target |-> "",
                 mirror |-> MirrorOf(sessions, ledger, Viewer), pre |-> NoMirror]

NextClient ==
    \/ NextBooking
    \/ FetchAllData
    \/ \E x \in SessIds : BookSession(x)
    \/ \E r \in DOMAIN req : BookSessionResponse(r)

SpecClient == InitClient /\ [][NextClient]_vars

\* =================================================================== claims
\* The decision validateBooking of the specification takes on the present
\* catalog and ledger: the reason of the first failing check, or "Allow".
Verdict(s, x) ==
    IF x \notin DOMAIN sessions THEN "SessionNotFound"
    ELSE IF ~IsEnabled(sessions[x]) THEN "SessionDisabled"
    ELSE IF Cardinality(SessionBookings(ledger, x)) >= sessions[x].capacity THEN "SessionFull"
    ELSE IF \E b \in StudentBookings(ledger, s) : sessions[b.sessionId].day = sessions[x].day
         THEN "DayAlreadyBooked"
    ELSE IF Cardinality(StudentBookings(ledger, s)) >= MAX_DAYS_PER_STUDENT THEN "MaxDaysReached"
    ELSE IF \E b \in ledger : b.studentId = s /\ b.sessionId = x THEN "DuplicateBooking"
    ELSE "Allow"

\* The step in which request r gets its answer.
Answers(r) == req[r].pc # "done" /\ req'[r].pc = "done"

Denials == {"SessionNotFound", "SessionDisabled", "SessionFull", "DayAlreadyBooked",
            "MaxDaysReached", "DuplicateBooking", "NotFoundOrUnauthorized"}

\* C1: in every reachable state, whatever the interleaving of createBooking,
\* cancelBooking and bulk reset, no session holds more bookings than its own
\* capacity.
C1_CapacityNeverExceeded ==
    \A x \in DOMAIN sessions :
        Cardinality(SessionBookings(ledger, x)) <= sessions[x].capacity

\* C2: in every reachable state no student holds two bookings whose sessions
\* fall on the same day, also when two createBooking requests of the student
\* are in flight at once.
C2_OneSessionPerDay ==
    \A b1 \in ledger, b2 \in ledger :
        (b1.studentId = b2.studentId /\ sessions[b1.sessionId].day = sessions[b2.sessionId].day)
            => b1 = b2

\* C3: in every reachable state a student holds at most MAX_DAYS_PER_STUDENT
\* bookings, also when two createBooking requests of the student are in
\* flight at once.
C3_MaxDaysPerStudent ==
    \A s \in students : Cardinality(StudentBookings(ledger, s)) <= MAX_DAYS_PER_STUDENT

\* C4: in every reachable state there is at most one booking for a
\* (student, session) pair, also when the same request is submitted twice
\* concurrently.
C4_UniqueStudentSession ==
    \A b1 \in ledger, b2 \in ledger :
        (b1.studentId = b2.studentId /\ b1.sessionId = b2.sessionId) => b1 = b2

\* C4 witness: one of two concurrent identical requests inserted the booking
\* and the other was stopped at the unique index.
C4_Witness ==
    \E r1 \in DOMAIN req, r2 \in DOMAIN req :
        /\ req[r1].result = "Success" /\ req[r1].op = "create"
        /\ req[r2].result = "AlreadyBooked"
        /\ req[r1].student = req[r2].student
        /\ req[r1].sessionId = req[r2].sessionId
        /\ req[r1].booking \in ledger

\* C5: when N distinct students at once call createBooking on one empty
\* session of capacity K < N, exactly K calls succeed and every other call
\* fails with SessionFull or the lost-race error.
C5_BurstExactlyK ==
    \A x \in DOMAIN sessions :
        (/\ \A r \in DOMAIN req :
                req[r].pc = "done" /\ req[r].op = "create" /\ req[r].sessionId = x
         /\ \A r1 \in DOMAIN req, r2 \in DOMAIN req :
                req[r1].student = req[r2].student => r1 = r2
         /\ sessions[x].capacity < Cardinality(DOMAIN req))
        => /\ Cardinality({r \in DOMAIN req : req[r].result = "Success"}) = sessions[x].capacity
           /\ \A r \in DOMAIN req : req[r].result \in {"Success", "SessionFull", "AlreadyBooked"}

\* C6: every booking that enters the ledger was allowed by all checks of
\* validateBooking on the catalog and ledger as they stood at the insert.
C6_InsertAllowedAtInsert ==
    [][\A b \in ledger' \ ledger : Verdict(b.studentId, b.sessionId) = "Allow"]_vars

\* C7: createBooking on a session whose enabled flag is false is answered
\* SessionDisabled and inserts no booking.
C7_DisabledSessionDenied ==
    [][\A r \in DOMAIN req :
          (/\ Answers(r)
           /\ req'[r].op = "create"
           /\ req'[r].sessionId \in DOMAIN sessions
           /\ ~IsEnabled(sessions[req'[r].sessionId]))
          => (req'[r].result = "SessionDisabled" /\ ledger' = ledger)]_vars

\* C8: on an existing, enabled session a denied createBooking reports the
\* first failing check in the order session full (against the session's own
\* capacity), day already booked, max days reached, duplicate booking; so a
\* student with a booking that day who targets a session at its capacity is
\* answered SessionFull.
C8_FirstFailingCheckReported ==
    [][\A r \in DOMAIN req :
          (/\ Answers(r)
           /\ req'[r].op = "create"
           /\ req'[r].sessionId \in DOMAIN sessions
           /\ IsEnabled(sessions[req'[r].sessionId])
           /\ Verdict(req'[r].student, req'[r].sessionId) # "Allow")
          => req'[r].result = Verdict(req'[r].student, req'[r].sessionId)]_vars

\* C9: with no other request running, createBooking by an eligible student
\* on an existing enabled session with fewer bookings than its own capacity
\* succeeds and adds exactly one booking of that student for that session,
\* whatever the capacity.
C9_EligibleBookingSucceeds ==
    [][\A r \in DOMAIN req :
          (/\ Answers(r)
           /\ req'[r].op = "create"
           /\ Verdict(req'[r].student, req'[r].sessionId) = "Allow")
          => /\ req'[r].result = "Success"
             /\ \E b \in ledger' \ ledger :
                   /\ ledger' = ledger \cup {b}
                   /\ b.studentId = req'[r].student
                   /\ b.sessionId = req'[r].sessionId]_vars

\* C10: a createBooking or cancelBooking call that is denied never wrote:
\* every step of a request other than the one answering Success leaves the
\* ledger and the catalog as they were.
C10_DenialLeavesStoreUnchanged ==
    [][\A r \in DOMAIN req :
          (req'[r] # req[r] /\ ~(Answers(r) /\ req'[r].result = "Success"))
          => (ledger' = ledger /\ sessions' = sessions)]_vars

\* C10 witness: a createBooking has been denied for a full session, and the
\* booking that fills the session is still in the ledger.
C10_Witness ==
    \E r \in DOMAIN req :
        /\ req[r].pc = "done" /\ req[r].op = "create" /\ req[r].result = "SessionFull"
        /\ Cardinality(SessionBookings(ledger, req[r].sessionId))
              = sessions[req[r].sessionId].capacity

\* C11: cancelBooking by a student naming a booking that belongs to another
\* student is answered NotFoundOrUnauthorized and leaves the ledger as it
\* was; no step of a cancel request removes a booking of anyone but the
\* caller.
C11_ForeignBookingNeverRemoved ==
    [][\A r \in DOMAIN req :
          /\ (/\ req[r].pc = "idle"
              /\ req'[r].op = "cancel"
              /\ \E b \in ledger : b.id = req'[r].bookingId /\ b.studentId # req'[r].student)
             => /\ req'[r].pc = "done"
                /\ req'[r].result = "NotFoundOrUnauthorized"
                /\ ledger' = ledger
          /\ (req[r].op = "cancel" /\ req'[r] # req[r])
             => \A b \in ledger \ ledger' : b.studentId = req[r].student]_vars

\* C11 witness: one student's createBooking has succeeded, another student's
\* cancelBooking naming that booking has been refused, and the booking is
\* still in the ledger.
C11_Witness ==
    \E r1 \in DOMAIN req, r2 \in DOMAIN req :
        /\ req[r1].pc = "done" /\ req[r1].op = "create" /\ req[r1].result = "Success"
        /\ req[r2].pc = "done" /\ req[r2].op = "cancel"
        /\ req[r2].result = "NotFoundOrUnauthorized"
        /\ req[r2].bookingId = req[r1].booking.id
        /\ req[r2].student # req[r1].student
        /\ req[r1].booking \in ledger

\* C12: the response of a cancelBooking that finds no booking of the caller
\* under the given id is the same 404 with the same text and no booking
\* details, whether no booking has that id or another student holds it.
C12_DenialHidesExistence ==
    [][\A r \in DOMAIN req :
          (/\ req[r].pc = "idle"
           /\ req'[r].op = "cancel"
           /\ ~\E b \in ledger : b.id = req'[r].bookingId /\ b.studentId = req'[r].student)
          => /\ req'[r].pc = "done"
             /\ CancelResponse(r)' = [status    |-> 404,
                                      error     |-> "Booking not found or not authorized",
                                      id        |-> NoSuchId,
                                      sessionId |-> "",
                                      day       |-> "",
                                      timeSlot  |-> ""]]_vars

\* C12 witness: a cancelBooking naming another student's booking has been
\* answered with the 404 that an unknown id gets.
C12_Witness ==
    \E r \in DOMAIN req, b \in ledger :
        /\ req[r].pc = "done" /\ req[r].op = "cancel"
        /\ b.id = req[r].bookingId
        /\ b.studentId # req[r].student
        /\ CancelResponse(r).status = 404
        /\ CancelResponse(r) = [CancelResponse(r) EXCEPT !.id = NoSuchId]

\* The checks a createBooking by s on x passes through, on catalog sess and
\* ledger l, when nothing else runs.
WouldSucceed(sess, l, s, x) ==
    /\ x \in DOMAIN sess
    /\ Cardinality(SessionBookings(l, x)) < MAX_CAPACITY
    /\ Cardinality(SessionBookings(l, x)) < sess[x].capacity
    /\ ~\E b \in StudentBookings(l, s) : sess[b.sessionId].day = sess[x].day
    /\ Cardinality(StudentBookings(l, s)) < MAX_DAYS_PER_STUDENT
    /\ ~UniqueViolation(l, s, x)

\* C13: a successful createBooking(s, x) followed by a successful
\* cancelBooking of the booking it created, with no other change to the
\* ledger in between, leaves the ledger as it stood before the booking:
\* every session's booking count and availableSpots, the student's bookings
\* and the isBooked flags are as before, the student holds nothing on the day
\* of x, and a new createBooking(s, x) would pass every check.
C13_BookThenCancelRestores ==
    [][\A r \in DOMAIN req :
          (/\ snap.on
           /\ Answers(r)
           /\ req'[r].op = "cancel"
           /\ req'[r].result = "Success"
           /\ req'[r].bookingId = snap.booking.id
           /\ ledger = snap.ledger \cup {snap.booking})
          => LET s == snap.booking.studentId
                 x == snap.booking.sessionId
             IN /\ ledger' = snap.ledger
                /\ \A y \in DOMAIN sessions, v \in students \cup {NoViewer} :
                      FormatSession(sessions', ledger', v, y)
                          = FormatSession(sessions', snap.ledger, v, y)
                /\ StudentBookings(ledger', s) = StudentBookings(snap.ledger, s)
                /\ ~\E b \in StudentBookings(ledger', s) :
                        sessions'[b.sessionId].day = sessions'[x].day
                /\ WouldSucceed(sessions', ledger', s, x)]_vars

\* C13 witness: the latest booking made has been cancelled by its student
\* and the ledger, which was not empty before the booking, is as it stood
\* before it.
C13_Witness ==
    \E r \in DOMAIN req :
        /\ snap.on
        /\ req[r].pc = "done" /\ req[r].op = "cancel" /\ req[r].result = "Success"
        /\ req[r].bookingId = snap.booking.id
        /\ req[r].student = snap.booking.studentId
        /\ ledger = snap.ledger
        /\ snap.ledger # {}

\* C14: a cancelBooking that is answered while the caller's booking under the
\* given id exists is answered Success and removes that booking and nothing
\* else, whether or not the session is full or disabled and whether or not
\* the student is at MAX_DAYS_PER_STUDENT.
C14_OwnerCancelSucceeds ==
    [][\A r \in DOMAIN req :
          (/\ Answers(r)
           /\ req'[r].op = "cancel"
           /\ \E b \in ledger : b.id = req'[r].bookingId /\ b.studentId = req'[r].student)
          => /\ req'[r].result = "Success"
             /\ ledger' = {b \in ledger : b.id # req'[r].bookingId}
             /\ Cardinality(ledger') = Cardinality(ledger) - 1]_vars

\* C14 witness: a cancelBooking has succeeded on a disabled session that was
\* full, for a student who was at MAX_DAYS_PER_STUDENT.
C14_Witness ==
    \E r \in DOMAIN req :
        /\ req[r].pc = "done" /\ req[r].op = "cancel" /\ req[r].result = "Success"
        /\ ~IsEnabled(sessions[req[r].booking.sessionId])
        /\ Cardinality(SessionBookings(ledger, req[r].booking.sessionId)) + 1
              = sessions[req[r].booking.sessionId].capacity
        /\ Cardinality(StudentBookings(ledger, req[r].student)) + 1 = MAX_DAYS_PER_STUDENT
        /\ req[r].booking \notin ledger

\* C15: a successful cancelBooking removes one booking, and the id,
\* sessionId, day and timeSlot in its response are those of the booking it
\* removed and of that booking's session.
C15_ResponseNamesRemovedBooking ==
    [][\A r \in DOMAIN req :
          (/\ Answers(r)
           /\ req'[r].op = "cancel"
           /\ req'[r].result = "Success")
          => \E b \in ledger \ ledger' :
                /\ ledger \ ledger' = {b}
                /\ CancelResponse(r)'.status = 200
                /\ CancelResponse(r)'.id = b.id
                /\ CancelResponse(r)'.sessionId = b.sessionId
                /\ CancelResponse(r)'.day = sessions[b.sessionId].day
                /\ CancelResponse(r)'.timeSlot = sessions[b.sessionId].timeSlot]_vars

\* C15 witness: a student with bookings on two days has cancelled one; the
\* response names the session of the booking that is gone, on another day
\* than the booking the student keeps.
C15_Witness ==
    \E r \in DOMAIN req, kept \in ledger :
        /\ req[r].pc = "done" /\ req[r].op = "cancel" /\ req[r].result = "Success"
        /\ kept.studentId = req[r].student
        /\ CancelResponse(r).sessionId # kept.sessionId
        /\ CancelResponse(r).day # sessions[kept.sessionId].day
        /\ ~\E b \in ledger : b.id = CancelResponse(r).id

\* The answers of validateSessionBooking that refuse a booking.
ValidatorDenials == {"SessionNotFound", "SessionFull", "DayAlreadyBooked", "MaxDaysReached"}

\* C16: a createBooking whose insert meets an existing booking of the same
\* student for the same session inserts nothing and is answered with the
\* 'already booked' error, whose text differs from the text of every
\* validator denial and of the generic storage errors.
C16_LostRaceReported ==
    [][\A r \in DOMAIN req :
          (/\ req[r].pc = "ins"
           /\ Answers(r)
           /\ \E b \in ledger : b.studentId = req[r].student /\ b.sessionId = req[r].sessionId)
          => /\ ledger' = ledger
             /\ req'[r].result = "AlreadyBooked"
             /\ ErrorMessage(req'[r].result) = "You have already booked this session"
             /\ \A d \in ValidatorDenials \cup {"SystemError", "CreateFailed"} :
                   ErrorMessage(d) # ErrorMessage(req'[r].result)]_vars

\* C16 witness: a createBooking has been answered 'already booked' and the
\* ledger holds the one booking of the winner for that student and session.
C16_Witness ==
    \E r \in DOMAIN req :
        /\ req[r].pc = "done" /\ req[r].op = "create"
        /\ ErrorMessage(req[r].result) = "You have already booked this session"
        /\ req[r].booking = NoBooking
        /\ Cardinality({b \in ledger : b.studentId = req[r].student
                                        /\ b.sessionId = req[r].sessionId}) = 1

C18_AvailabilityReported ==
    \A x \in DOMAIN sessions, v \in students \cup {NoViewer} :
        LET f == FormatSession(sessions, ledger, v, x)
        IN /\ f.availableSpots = sessions[x].capacity - Cardinality(SessionBookings(ledger, x))
           /\ f.isAvailable <=> (f.availableSpots > 0 /\ IsEnabled(sessions[x]))
           /\ f.isBooked <=> (v # NoViewer
                              /\ \E b \in ledger : b.studentId = v /\ b.sessionId = x)

\* C19: a bulk reset called by the cron agent empties the ledger and leaves
\* the sessions, with their capacities and enabled flags, and the students as
\* they were; afterwards every session reports availableSpots equal to its
\* capacity.
C19_ResetRemovesOnlyBookings ==
    [][(\E ua \in UserAgents : IsCron(ua) /\ ResetBookings(ua))
          => /\ ledger' = {}
             /\ sessions' = sessions
             /\ students' = students
             /\ \A x \in DOMAIN sessions :
                   FormatSession(sessions', ledger', NoViewer, x).availableSpots
                       = sessions[x].capacity]_vars

\* C19 witness: the only request made so far booked a session that had been
\* switched by PATCH; the ledger is empty again and the session still carries
\* its flag.
C19_Witness ==
    \E r \in DOMAIN req :
        /\ budget = MaxRequests
        /\ req[r].pc = "done" /\ req[r].op = "create" /\ req[r].result = "Success"
        /\ ledger = {}
        /\ sessions[req[r].sessionId].metadata # {}

\* C20: the three-day rule of the README: createBooking is refused with
\* MaxDaysReached only to a student who already holds bookings on
\* THREE_DAY_RULE days.
C20_ThreeDayRule ==
    [][\A r \in DOMAIN req :
          (/\ Answers(r)
           /\ req'[r].op = "create"
           /\ req'[r].result = "MaxDaysReached")
          => Cardinality({sessions[b.sessionId].day :
                             b \in StudentBookings(ledger, req'[r].student)})
                >= THREE_DAY_RULE]_vars

\* C21: a session whose metadata carries no isEnabled member is reported
\* enabled by both readers of the flag; after an accepted PATCH of session x
\* with value e both readers report e; and the flag of x changes in no step
\* other than an accepted PATCH of x, so the readers keep reporting e until
\* the next toggle of x.
C21_EnabledFlagReads ==
    [][\A x \in DOMAIN sessions :
          /\ StoredFlag(sessions[x]) = {}
                => (InstructorListIsEnabled(sessions[x]) /\ SessionDetailIsEnabled(sessions[x]))
          /\ \A body \in {"absent", "true", "false"} :
                PATCH(x, body)
                   => /\ InstructorListIsEnabled(sessions'[x]) = (body # "false")
                      /\ SessionDetailIsEnabled(sessions'[x]) = (body # "false")
          /\ (~\E body \in {"absent", "true", "false"} : PATCH(x, body))
                => /\ InstructorListIsEnabled(sessions'[x]) = InstructorListIsEnabled(sessions[x])
                   /\ SessionDetailIsEnabled(sessions'[x]) = SessionDetailIsEnabled(sessions[x])]_vars

\* C21 witness: after two toggles and a booking, one session reads disabled
\* with both readers while a session that was never toggled reads enabled.
C21_Witness ==
    \E x \in DOMAIN sessions, y \in DOMAIN sessions :
        /\ toggles = MaxToggles - 1
        /\ ledger # {}
        /\ ~InstructorListIsEnabled(sessions[x]) /\ ~SessionDetailIsEnabled(sessions[x])
        /\ sessions[y].metadata = {}
        /\ InstructorListIsEnabled(sessions[y]) /\ SessionDetailIsEnabled(sessions[y])

\* C22: after every step at most one session exists per (day, timeSlot)
\* pair; no step of booking, cancellation, toggle, reset or seeding removes
\* a session; and once every pair of the grid has its session, no step, a
\* further seeding run included, adds one.
C22_CatalogUniqueAndStable ==
    [][/\ \A x \in DOMAIN sessions', y \in DOMAIN sessions' :
             (sessions'[x].day = sessions'[y].day
              /\ sessions'[x].timeSlot = sessions'[y].timeSlot) => x = y
       /\ DOMAIN sessions \subseteq DOMAIN sessions'
       /\ MissingSlots(sessions) = {} => DOMAIN sessions' = DOMAIN sessions
       /\ ~SeedSession => DOMAIN sessions' = DOMAIN sessions]_vars

\* C22 witness: the grid is fully seeded, one session per pair, a session
\* has been toggled and a booking made.
C22_Witness ==
    /\ MissingSlots(sessions) = {}
    /\ Cardinality(DOMAIN sessions) = Len(SeedOrder)
    /\ ledger # {}
    /\ \E x \in DOMAIN sessions : sessions[x].metadata # {}

\* C23: of two cancelBooking requests of one student for the same booking
\* that have both been answered, when one was answered Success the other was
\* answered NotFoundOrUnauthorized.
C23_ConcurrentCancelOnce ==
    \A r1 \in DOMAIN req, r2 \in DOMAIN req :
        (/\ r1 # r2
         /\ req[r1].pc = "done" /\ req[r1].op = "cancel"
         /\ req[r2].pc = "done" /\ req[r2].op = "cancel"
         /\ req[r1].bookingId = req[r2].bookingId
         /\ req[r1].student = req[r2].student
         /\ req[r1].result = "Success")
        => req[r2].result = "NotFoundOrUnauthorized"

\* C24: a PATCH (the one step that uses up a toggle) leaves the ledger and
\* the students as they were and keeps the set of sessions; a session it
\* changes is the session it names, and of that session nothing but the
\* isEnabled member of the metadata changes: capacity, day and timeSlot
\* stay; and no step of a createBooking or cancelBooking request changes
\* any session.
C24_ToggleChangesOnlyFlag ==
    [][/\ toggles' # toggles
          => /\ ledger' = ledger
             /\ students' = students
             /\ DOMAIN sessions' = DOMAIN sessions
             /\ \A y \in DOMAIN sessions :
                   /\ sessions'[y].capacity = sessions[y].capacity
                   /\ sessions'[y].day = sessions[y].day
                   /\ sessions'[y].timeSlot = sessions[y].timeSlot
                   /\ {p \in sessions'[y].metadata : p[1] # "isEnabled"}
                         = {p \in sessions[y].metadata : p[1] # "isEnabled"}
                   /\ sessions'[y] # sessions[y] => \E body \in Bodies : PATCH(y, body)
       /\ req' # req => sessions' = sessions]_vars

\* C24 witness: a session has been disabled and the booking held on it is
\* still in the ledger, with the session's capacity as seeded.
C24_Witness ==
    \E b \in ledger :
        /\ toggles < MaxToggles
        /\ ~IsEnabled(sessions[b.sessionId])
        /\ sessions[b.sessionId].capacity \in Capacities
        /\ \E y \in DOMAIN sessions : y # b.sessionId /\ sessions[y].metadata = {}

\* C25: in every reachable state, for every session, the availableSpots that
\* GET /api/sessions reports lies between 0 and the session's capacity, and
\* the reported bookingCount and availableSpots add up to the capacity.
C25_AvailableSpotsInRange ==
    \A x \in DOMAIN sessions :
        LET f == FormatSession(sessions, ledger, NoViewer, x)
        IN /\ 0 <= f.availableSpots
           /\ f.availableSpots <= sessions[x].capacity
           /\ f.bookingCount + f.availableSpots = sessions[x].capacity

\* C26: a successful cancelBooking on a session that was at its capacity
\* leaves a spot available; and while that spot is free, a createBooking on
\* the session by another student, who holds no booking on that day and
\* fewer than MAX_DAYS_PER_STUDENT bookings, is answered Success and adds
\* that student's booking.
C26_FreedSpotReusable ==
    [][\A r \in DOMAIN req :
          /\ (/\ Answers(r)
              /\ req'[r].op = "cancel"
              /\ req'[r].result = "Success"
              /\ snap'.freed # "")
             => FormatSession(sessions', ledger', NoViewer, snap'.freed).availableSpots > 0
          /\ (/\ Answers(r)
              /\ req'[r].op = "create"
              /\ snap.freed # ""
              /\ req'[r].sessionId = snap.freed
              /\ req'[r].student # snap.canceller
              /\ Cardinality(SessionBookings(ledger, snap.freed)) + 1
                    = sessions[snap.freed].capacity
              /\ ~\E b \in StudentBookings(ledger, req'[r].student) :
                      sessions[b.sessionId].day = sessions[snap.freed].day
              /\ Cardinality(StudentBookings(ledger, req'[r].student)) < MAX_DAYS_PER_STUDENT)
             => /\ req'[r].result = "Success"
                /\ \E b \in ledger' \ ledger :
                      b.studentId = req'[r].student /\ b.sessionId = snap.freed]_vars

\* C26 witness: the spot a cancellation freed in a full session has been
\* taken by another student, and the session is at its capacity again.
C26_Witness ==
    \E r \in DOMAIN req :
        /\ snap.freed # ""
        /\ req[r].pc = "done" /\ req[r].op = "create" /\ req[r].result = "Success"
        /\ req[r].sessionId = snap.freed
        /\ req[r].student # snap.canceller
        /\ req[r].booking = snap.booking
        /\ snap.ledger = ledger \ {snap.booking}
        /\ Cardinality(SessionBookings(ledger, snap.freed)) = sessions[snap.freed].capacity

\* C27: a PATCH that names a session that does not exist, or whose isEnabled
\* member is not a boolean, is answered with an error status and leaves
\* every session, and the ledger, as they were.
C27_BadToggleRejected ==
    [][toggles' # toggles
          => \A x \in SessIds, body \in Bodies :
                (PATCH(x, body) /\ (x \notin DOMAIN sessions \/ body = "other"))
                   => /\ PatchStatus(sessions, x, body) \in {400, 404}
                      /\ sessions' = sessions
                      /\ ledger' = ledger]_vars

\* C27 witness: PATCH requests have been made and no session carries any
\* metadata: each of them was refused.
C27_Witness ==
    /\ toggles = 0
    /\ \A x \in DOMAIN sessions : sessions[x].metadata = {}
    /\ PatchStatus(sessions, "S0", "true") = 404
    /\ PatchStatus(sessions, "S1", "other") = 400

\* C28: a PATCH of an existing session whose body has no isEnabled member
\* stores isEnabled = true: both readers report the session enabled after
\* it, whatever they reported before.
C28_AbsentFlagEnables ==
    [][toggles' # toggles
          => \A x \in DOMAIN sessions :
                PATCH(x, "absent")
                   => /\ StoredFlag(sessions'[x]) = {TRUE}
                      /\ InstructorListIsEnabled(sessions'[x])
                      /\ SessionDetailIsEnabled(sessions'[x])]_vars

\* C28 witness: two toggles have been used on a catalog where one session,
\* and no other, carries the flag, and it reads enabled.
C28_Witness ==
    \E x \in DOMAIN sessions :
        /\ toggles = MaxToggles - 1
        /\ StoredFlag(sessions[x]) = {TRUE}
        /\ SessionDetailIsEnabled(sessions[x])
        /\ \A y \in DOMAIN sessions \ {x} : sessions[y].metadata = {}

\* C29: when the server's answer to the POST of bookSession is a refusal,
\* the mirror is put back as it was before the attempt: the local bookings,
\* and the target session's availableSpots and isBooked, equal their values
\* from before the attempt, also when availableSpots was 0.
C29_RejectedBookingRestoresMirror ==
    [][(/\ client.phase = "posting"
        /\ client'.phase = "idle"
        /\ \E r \in DOMAIN req :
              req[r].pc = "done" /\ req[r].result # "Success" /\ req'[r].pc = "idle")
          => /\ client'.mirror.bookings = client.pre.bookings
             /\ client'.mirror.sessions[client.target].availableSpots
                   = client.pre.sessions[client.target].availableSpots
             /\ client'.mirror.sessions[client.target].isBooked
                   = client.pre.sessions[client.target].isBooked]_vars

\* C30: a bulk reset whose user-agent does not contain 'vercel-cron' is
\* answered with status 401 and leaves the ledger as it was.
C30_ForeignResetRefused ==
    [][((\E ua \in UserAgents : ResetBookings(ua)) /\ snap'.agent = "curl/8.0")
          => /\ snap'.reset = 401
             /\ ledger' = ledger]_vars

\* C30 witness: the latest reset call came from curl and was refused while
\* the ledger held a booking.
C30_Witness ==
    /\ snap.agent = "curl/8.0"
    /\ snap.reset = 401
    /\ ledger # {}

====
